---------------------------- MODULE Spec2Model ----------------------------
(***************************************************************************)
(* The API client core of frappecli (src/src/frappecli/client.py): one     *)
(* FrappeClient session on which the caller runs get/post/put/delete, one  *)
(* at a time.  An operation is a sequence of transport attempts; the       *)
(* server (or the network) answers each attempt, and the Retry policy the  *)
(* client mounts on its session (_configure_retries) decides whether the   *)
(* answer is final.  The final answer is classified by _make_request and   *)
(* unwrapped by _parse_response.                                           *)
(*                                                                         *)
(* The client delegates the retry loop to urllib3's Retry through          *)
(* requests' HTTPAdapter; the loop is modelled as that library runs it for *)
(* the arguments the client passes (total=3, backoff_factor=1,             *)
(* status_forcelist, allowed_methods; every other argument at its          *)
(* default: connect/read/status/other=None, raise_on_status=True,          *)
(* respect_retry_after_header=True).                                       *)
(*                                                                         *)
(* Environment: responses carry no Location header, so requests returns a  *)
(* 3xx response as it is and follows no redirect; AttemptsSpec alone has a *)
(* server that also answers with redirects.                                *)
(***************************************************************************)
EXTENDS Integers, Sequences, FiniteSets, TLC

VARIABLES
    session,    \* the FrappeClient: base_url, timeout, headers, retry policy
    pc,         \* "idle" | "sending" | "done": where the caller's operation is
    method,     \* HTTP method of the operation in progress ("" when idle)
    retries,    \* Retry.total left for the request in flight
    answers,    \* what each attempt of the operation met, in order (see AnswerOf)
    error,      \* the transport error of the last attempt ("none" if it got a response)
    calls,      \* transport attempts made by the operation so far
    response,   \* the last response an attempt received (NoResponse if none)
    raised,     \* the requests exception session.request raised ("none" if it returned)
    result,     \* how the operation ended: payload or one of the two error kinds
    ops,        \* operations completed on this session
    request,    \* the request session.request prepared for the operation
    wire,       \* the request the last attempt put on the wire
    config,     \* the configuration file Config is constructed from
    env,        \* os.environ: variable name -> value
    site,       \* what the site lookup of get_client returned or raised
    built,      \* a _build_url call by itself: its path, params and the URL returned
    slept,      \* the seconds the retry loop slept before each retry of the operation
    spent,      \* the retries the previous operation on the session made (recorded
                \* by the specifications that compare operations, see ReturnCounted)
    cmd         \* the command that runs: its options, its position, what it printed

vars ==
    <<session, pc, method, retries, answers, error, calls, response, raised, result, ops,
      request, wire, config, env, site, built, slept, spent, cmd>>

(***************************************************************************)
(* Bounds of the model.                                                    *)
(***************************************************************************)
MaxOps == 2
\* redirects the server answers within one operation
MaxRedirects == 1
\* the most paths a pattern of bulk-upload matches
MaxFiles == 2
\* the seconds a Retry-After header of the server names
RetryAfterSeconds == 7

(***************************************************************************)
(* Program constants.                                                      *)
(***************************************************************************)
RetryTotal == 3
BackoffFactor == 1
DefaultTimeout == 30

StatusForcelist == {500, 502, 503, 504}
AllowedMethods == {"GET", "POST", "PUT", "DELETE"}
\* urllib3.util.retry.Retry.RETRY_AFTER_STATUS_CODES
RetryAfterStatusCodes == {413, 429, 503}

(***************************************************************************)
(* JSON values.  Every value is a record of the same shape, so that any    *)
(* two can be compared: t is the type, s the content of a scalar (or the   *)
(* text of a list), m the mapping of an object (key -> value).             *)
(***************************************************************************)
JStr(s) == [t |-> "str", s |-> s, m |-> <<>>]
JNum(s) == [t |-> "num", s |-> s, m |-> <<>>]
JList(s) == [t |-> "list", s |-> s, m |-> <<>>]
JMap(f) == [t |-> "map", s |-> "", m |-> f]
JNull == [t |-> "null", s |-> "", m |-> <<>>]
JBool(s) == [t |-> "bool", s |-> s, m |-> <<>>]
\* a Python dict whose insertion order matters: m is the sequence of its
\* <<key, value>> pairs
PyDict(items) == [t |-> "dict", s |-> "", m |-> items]
\* no value: the body did not parse (response.json() raised), or nothing was returned
NoValue == [t |-> "none", s |-> "", m |-> <<>>]

IsDict(v) == v.t = "map"
HasKey(v, k) == k \in DOMAIN v.m

(***************************************************************************)
(* The response bodies the server sends in this model, as text.            *)
(***************************************************************************)
BodyPlain == "plain text"
BodyList == "[1, 2, 3]"
BodyNumber == "7"
BodyString == "\"ok\""
BodyMessageData == "{\"message\": \"M\", \"data\": \"D\"}"
BodyMessage == "{\"message\": \"Not permitted\"}"
BodyData == "{\"data\": \"D\"}"
BodyOther == "{\"other\": 1}"
BodyNested == "{\"message\": {\"data\": \"X\"}}"
BodyNullMessage == "{\"message\": null, \"data\": \"D\"}"

Bodies ==
    { BodyPlain, BodyList, BodyNumber, BodyString, BodyMessageData,
      BodyMessage, BodyData, BodyOther, BodyNested, BodyNullMessage }

\* response.json(): the parsed body, NoValue when the text is not JSON (json() raises)
ResponseJson(text) ==
    CASE text = BodyList -> JList("[1, 2, 3]")
      [] text = BodyNumber -> JNum("7")
      [] text = BodyString -> JStr("ok")
      [] text = BodyMessageData -> JMap([message |-> JStr("M"), data |-> JStr("D")])
      [] text = BodyMessage -> JMap([message |-> JStr("Not permitted")])
      [] text = BodyData -> JMap([data |-> JStr("D")])
      [] text = BodyOther -> JMap([other |-> JNum("1")])
      [] text = BodyNested -> JMap([message |-> JMap([data |-> JStr("X")])])
      [] text = BodyNullMessage -> JMap([message |-> JNull, data |-> JStr("D")])
      [] OTHER -> NoValue

\* str(v) as an f-string formats a parsed value
PyStr(v) ==
    CASE v.t = "str" -> v.s
      [] v.t = "num" -> v.s
      [] v.t = "list" /\ v.s = "[[\"status\", \"=\", \"Open\"]]" -> "[['status', '=', 'Open']]"
      [] v.t = "list" /\ v.s # "[[\"status\", \"=\", \"Open\"]]" -> v.s
      [] v.t = "null" -> "None"
      [] v.t = "bool" -> v.s
      [] v = JMap([data |-> JStr("X")]) -> "{'data': 'X'}"
      [] v = JMap([module |-> JStr("Core")]) -> "{'module': 'Core'}"
      [] OTHER -> "{...}"

\* json.dumps(v) with its default separators
JsonDumps(v) ==
    CASE v.t = "list" -> v.s
      [] v.t = "num" -> v.s
      [] v.t = "null" -> "null"
      [] v.t = "bool" -> IF v.s = "True" THEN "true" ELSE "false"
      [] v.t = "str" /\ v.s = "[\"name\", \"module\"]" -> "\"[\\\"name\\\", \\\"module\\\"]\""
      [] v.t = "str" /\ v.s # "[\"name\", \"module\"]" -> "\"" \o v.s \o "\""
      [] v = JMap([module |-> JStr("Core")]) -> "{\"module\": \"Core\"}"
      [] v = JMap([email |-> JStr("new@example.com")]) -> "{\"email\": \"new@example.com\"}"
      [] OTHER -> "{...}"

\* json.loads(text), NoValue when it raises
JsonLoads(text) ==
    CASE text = "[[\"status\", \"=\", \"Open\"]]" -> JList("[[\"status\", \"=\", \"Open\"]]")
      [] text = "{\"module\": \"Core\"}" -> JMap([module |-> JStr("Core")])
      [] text = "{\"email\": \"new@example.com\"}" -> JMap([email |-> JStr("new@example.com")])
      [] text = "[\"name\", \"module\"]" -> JList("[\"name\", \"module\"]")
      [] text = "20" -> JNum("20")
      [] text = "true" -> JBool("True")
      [] OTHER -> ResponseJson(text)

\* urllib.parse.quote_plus(text)
QuotePlus(text) ==
    CASE text = "[[\"status\", \"=\", \"Open\"]]" ->
            "%5B%5B%22status%22%2C+%22%3D%22%2C+%22Open%22%5D%5D"
      [] text = "[['status', '=', 'Open']]" ->
            "%5B%5B%27status%27%2C+%27%3D%27%2C+%27Open%27%5D%5D"
      [] text = "[\"name\", \"module\"]" -> "%5B%22name%22%2C+%22module%22%5D"
      [] text = "\"[\\\"name\\\", \\\"module\\\"]\"" ->
            "%22%5B%5C%22name%5C%22%2C+%5C%22module%5C%22%5D%22"
      [] text = "{\"module\": \"Core\"}" -> "%7B%22module%22%3A+%22Core%22%7D"
      [] text = "{'module': 'Core'}" -> "%7B%27module%27%3A+%27Core%27%7D"
      [] text = "creation desc" -> "creation+desc"
      [] text = "\"creation desc\"" -> "%22creation+desc%22"
      [] text = "\"20\"" -> "%2220%22"
      [] OTHER -> text

(***************************************************************************)
(* What one transport attempt can meet.                                    *)
(***************************************************************************)
Statuses == {200, 202, 304, 403, 404, 429, 500, 501, 502, 503, 504, 600}

\* the statuses the server sends with a Retry-After header in this model
WithRetryAfter == {429, 503}

Responses ==
    { [status |-> s, retry_after |-> ra, text |-> b] :
        s \in Statuses, ra \in BOOLEAN, b \in Bodies }

ServerResponses == { r \in Responses : r.retry_after => r.status \in WithRetryAfter }

NoResponse == [status |-> 0, retry_after |-> FALSE, text |-> ""]

\* urllib3 errors of one attempt, raised before it has a response: refused
\* connection or DNS failure, connect timeout, read timeout while it waits for
\* the response
TransportErrors == {"NewConnectionError", "ConnectTimeoutError", "ReadTimeoutError"}

\* errors of reading the body of a response urllib3 has returned to requests:
\* a read timeout, a connection that breaks off
BodyErrors == {"BodyReadTimeout", "BodyIncomplete"}

\* the responses whose body may fail to arrive, as they are before it is read
Heads == { [status |-> st, retry_after |-> FALSE, text |-> ""] : st \in Statuses }

\* how an answered attempt is logged: by the class of its status
AnswerOf(r) ==
    IF r.status \in StatusForcelist THEN "forcelist"
    ELSE IF r.retry_after /\ r.status \in RetryAfterStatusCodes THEN "retry_after"
    ELSE IF 400 <= r.status /\ r.status < 600 THEN "failure"
    ELSE "success"

(***************************************************************************)
(* Text the client computes on (base URLs, paths, URLs) is a sequence of   *)
(* tokens: "/" , "?", "=" and "&" are those single characters, a scheme    *)
(* token is the scheme with its colon ("https:"), and every other token is *)
(* a run of characters holding none of them.  Paths hold no "." or ".."    *)
(* segment, no "?" and no "#".                                             *)
(***************************************************************************)
RECURSIVE Text(_)
\* the string the tokens spell
Text(tokens) == IF tokens = <<>> THEN "" ELSE Head(tokens) \o Text(Tail(tokens))

\* str.startswith
StartsWith(tokens, prefix) ==
    /\ Len(tokens) >= Len(prefix)
    /\ SubSeq(tokens, 1, Len(prefix)) = prefix

\* Faulty variant: str.removesuffix, which strips one trailing character
RStrip_One(tokens, ch) ==
    IF tokens # <<>> /\ tokens[Len(tokens)] = ch
    THEN SubSeq(tokens, 1, Len(tokens) - 1)
    ELSE tokens

RECURSIVE RStrip(_, _)
\* str.rstrip(ch): every trailing ch is stripped
RStrip(tokens, ch) ==
    IF tokens # <<>> /\ tokens[Len(tokens)] = ch
    THEN RStrip(SubSeq(tokens, 1, Len(tokens) - 1), ch)
    ELSE tokens

SchemeTokens == {"https:", "http:"}

RECURSIVE BeforeQuery(_)
\* a URL up to its first "?"
BeforeQuery(url) ==
    IF url = <<>> \/ url[1] = "?" THEN <<>> ELSE <<url[1]>> \o BeforeQuery(Tail(url))

RECURSIVE AfterQuery(_)
\* a URL after its first "?"
AfterQuery(url) ==
    IF url = <<>> THEN <<>>
    ELSE IF url[1] = "?" THEN Tail(url)
    ELSE AfterQuery(Tail(url))

\* urlsplit: the netloc is what stands between "//" and the next "/"
SplitNetloc(scheme, after, query) ==
    IF after # <<>> /\ after[1] # "/"
    THEN [scheme |-> scheme, netloc |-> after[1], path |-> Tail(after), query |-> query]
    ELSE [scheme |-> scheme, netloc |-> "", path |-> after, query |-> query]

\* urlsplit: what follows the scheme has a netloc only if it starts with "//"
SplitHier(scheme, rest, query) ==
    IF StartsWith(rest, <<"/", "/">>)
    THEN SplitNetloc(scheme, SubSeq(rest, 3, Len(rest)), query)
    ELSE [scheme |-> scheme, netloc |-> "", path |-> rest, query |-> query]

\* urlsplit: the scheme
SplitScheme(front, query) ==
    IF front # <<>> /\ front[1] \in SchemeTokens
    THEN SplitHier(front[1], Tail(front), query)
    ELSE SplitHier("", front, query)

\* urllib.parse.urlparse: scheme, netloc, path and query of a URL
UrlParse(url) == SplitScheme(BeforeQuery(url), AfterQuery(url))

\* urllib.parse.urlunparse for the schemes that take a netloc
UrlUnparse(scheme, netloc, path) ==
    (IF scheme = "" THEN <<>> ELSE <<scheme>>)
        \o (IF netloc # "" \/ (scheme # "" /\ ~StartsWith(path, <<"/", "/">>))
            THEN (IF netloc = "" THEN <<"/", "/">> ELSE <<"/", "/", netloc>>)
                    \o (IF path # <<>> /\ path[1] # "/" THEN <<"/">> ELSE <<>>)
            ELSE <<>>)
        \o path

RECURSIVE CollapseSlashes(_)
\* urljoin drops the empty segments inside the path it merges a relative
\* reference into: "/a//b" becomes "/a/b"
CollapseSlashes(path) ==
    IF Len(path) < 2 THEN path
    ELSE IF path[1] = "/" /\ path[2] = "/" THEN CollapseSlashes(Tail(path))
    ELSE <<path[1]>> \o CollapseSlashes(Tail(path))

RECURSIVE Directory(_)
\* a path up to and with its last "/"
Directory(path) ==
    IF path = <<>> THEN <<"/">>
    ELSE IF path[Len(path)] = "/" THEN path
    ELSE Directory(SubSeq(path, 1, Len(path) - 1))

\* urljoin on the parsed base b and the parsed reference r of the text url
JoinParsed(b, r, url) ==
    IF r.scheme # "" /\ r.scheme # b.scheme THEN url
    ELSE IF r.netloc # "" THEN UrlUnparse(b.scheme, r.netloc, r.path)
    ELSE IF r.path = <<>> THEN UrlUnparse(b.scheme, b.netloc, b.path)
    ELSE IF r.path[1] = "/" THEN UrlUnparse(b.scheme, b.netloc, r.path)
    ELSE UrlUnparse(b.scheme, b.netloc, CollapseSlashes(Directory(b.path) \o r.path))

\* urllib.parse.urljoin(base, url)
UrlJoin(base, url) ==
    IF base = <<>> THEN url
    ELSE IF url = <<>> THEN base
    ELSE JoinParsed(UrlParse(base), UrlParse(url), url)

(***************************************************************************)
(* The session.                                                            *)
(***************************************************************************)
\* Retry(total=3, backoff_factor=1, status_forcelist=[...], allowed_methods=[...])
RetryStrategy ==
    [ total |-> RetryTotal,
      backoff_factor |-> BackoffFactor,
      status_forcelist |-> StatusForcelist,
      allowed_methods |-> AllowedMethods,
      raise_on_status |-> TRUE,
      respect_retry_after_header |-> TRUE ]

\* Faulty variant: base_url.removesuffix("/")
FrappeClient_StripOne(base_url, api_key, api_secret, timeout) ==
    [ base_url |-> RStrip_One(base_url, "/"),
      timeout |-> timeout,
      headers |-> [ Authorization |-> "token " \o api_key \o ":" \o api_secret,
                    ContentType |-> "application/json" ],
      max_retries |-> RetryStrategy ]

\* Faulty variant: the credential pair joined without its colon
FrappeClient_NoColon(base_url, api_key, api_secret, timeout) ==
    [ base_url |-> RStrip(base_url, "/"),
      timeout |-> timeout,
      headers |-> [ Authorization |-> "token " \o api_key \o api_secret,
                    ContentType |-> "application/json" ],
      max_retries |-> RetryStrategy ]

\* FrappeClient(base_url, api_key, api_secret, timeout)
FrappeClient(base_url, api_key, api_secret, timeout) ==
    [ base_url |-> RStrip(base_url, "/"),
      timeout |-> timeout,
      headers |-> [ Authorization |-> "token " \o api_key \o ":" \o api_secret,
                    ContentType |-> "application/json" ],
      max_retries |-> RetryStrategy ]

\* no session constructed yet
NoSession ==
    [ base_url |-> <<>>,
      timeout |-> 0,
      headers |-> [Authorization |-> "", ContentType |-> ""],
      max_retries |-> RetryStrategy ]

(***************************************************************************)
(* _build_url.                                                             *)
(***************************************************************************)
\* Faulty variant: a "/" put in front of every path
NormalizePath_Always(path) == <<"/">> \o path

\* if not path.startswith("/"): path = f"/{path}"
NormalizePath(path) == IF ~StartsWith(path, <<"/">>) THEN <<"/">> \o path ELSE path

\* `if params:` : neither None nor an empty dict
IsTruthy(params) == params.t = "dict" /\ params.m # <<>>

\* Faulty variant: json.dumps of every value
EncodeParam_DumpsAll(value) == JStr(JsonDumps(value))

\* the value _build_url hands to urlencode: the JSON text of a dict or list,
\* any other value as it is
EncodeParam(value) ==
    IF value.t \in {"map", "list"} THEN JStr(JsonDumps(value)) ELSE value

RECURSIVE UrlEncode(_)
\* urllib.parse.urlencode of the <<key, value>> pairs, in their order
UrlEncode(items) ==
    IF items = <<>> THEN <<>>
    ELSE <<QuotePlus(items[1][1]), "=", QuotePlus(PyStr(items[1][2]))>>
            \o (IF Len(items) = 1 THEN <<>> ELSE <<"&">> \o UrlEncode(Tail(items)))

\* encoded_params: every value of params encoded, in the order of params
EncodedParams(params) ==
    [i \in 1..Len(params.m) |-> <<params.m[i][1], EncodeParam(params.m[i][2])>>]

\* if params: url = f"{url}?{query_string}"
WithQuery(url, params) ==
    IF IsTruthy(params) THEN url \o <<"?">> \o UrlEncode(EncodedParams(params)) ELSE url

\* _build_url(path, params)
BuildUrl(s, path, params) == WithQuery(UrlJoin(s.base_url, NormalizePath(path)), params)

(***************************************************************************)
(* The Retry policy, as urllib3 runs it.                                   *)
(***************************************************************************)
\* Faulty variant: urllib3's default allowed_methods, which leave POST out
IsMethodRetryable_NoPost(policy, m) == m \in policy.allowed_methods \ {"POST"}

\* Retry._is_method_retryable
IsMethodRetryable(policy, m) == m \in policy.allowed_methods

\* Faulty variant: a forcelist of every failure status 5xx instead of the four listed
IsRetry_All5xx(policy, total, m, status, has_retry_after) ==
    IF ~IsMethodRetryable(policy, m) THEN FALSE
    ELSE IF 500 <= status /\ status < 600 THEN TRUE
    ELSE /\ total # 0
         /\ policy.respect_retry_after_header
         /\ has_retry_after
         /\ status \in RetryAfterStatusCodes

\* Retry.is_retry(method, status_code, has_retry_after) with `total` left
IsRetry(policy, total, m, status, has_retry_after) ==
    IF ~IsMethodRetryable(policy, m) THEN FALSE
    ELSE IF status \in policy.status_forcelist THEN TRUE
    ELSE /\ total # 0
         /\ policy.respect_retry_after_header
         /\ has_retry_after
         /\ status \in RetryAfterStatusCodes

\* Faulty variant: Retry(connect=False, read=False): no transport error is retried
ErrorIsRetried_Never(policy, m, err) == FALSE

\* Faulty variant: Retry(connect=False): a failed connection is not retried
ErrorIsRetried_ReadOnly(policy, m, err) ==
    IF err = "ReadTimeoutError" THEN IsMethodRetryable(policy, m) ELSE FALSE

\* Retry.increment on a transport error: with connect=None, read=None and
\* other=None every error is counted against total alone; a read error is
\* re-raised at once only for a method that is not retryable
ErrorIsRetried(policy, m, err) ==
    IF err = "ReadTimeoutError"
    THEN IsMethodRetryable(policy, m)
    ELSE TRUE

\* Retry.increment: total - 1
Increment(total) == total - 1

\* Faulty variant: backoff_factor * 2 ** n, without the first retry at once
BackoffTime_NoFree(policy, n) == policy.backoff_factor * 2 ^ n

\* Retry.get_backoff_time after n consecutive errors: none for the first,
\* then backoff_factor * 2 ** (n - 1), at most DEFAULT_BACKOFF_MAX
BackoffTime(policy, n) ==
    IF n <= 1 THEN 0
    ELSE IF policy.backoff_factor * 2 ^ (n - 1) > 120 THEN 120
    ELSE policy.backoff_factor * 2 ^ (n - 1)

\* Retry.sleep(response) after the n-th increment: the Retry-After of the
\* response if it has one (sleep_for_retry), else the backoff
SleepTime(policy, n, has_retry_after) ==
    IF policy.respect_retry_after_header /\ has_retry_after
    THEN RetryAfterSeconds
    ELSE BackoffTime(policy, n)

\* Faulty variant: exhausted one retry late
IsExhausted_Late(total) == total < -1

\* Faulty variant: exhausted one retry early
IsExhausted_OffByOne(total) == total <= 0

\* Retry.is_exhausted: a count below zero
IsExhausted(total) == total < 0

(***************************************************************************)
(* requests: what HTTPAdapter.send raises for what urllib3 raised.         *)
(***************************************************************************)
\* MaxRetryError(reason): the except MaxRetryError clause of HTTPAdapter.send
AdapterException(reason) ==
    CASE reason = "ConnectTimeoutError" -> "ConnectTimeout"
      [] reason = "ResponseError" -> "RetryError"
      [] OTHER -> "ConnectionError"

\* an error urllib3 re-raises without retrying it
AdapterReraised(err) ==
    CASE err = "ReadTimeoutError" -> "ReadTimeout"
      [] OTHER -> "ConnectionError"

\* what Response.content raises when reading the body fails (iter_content)
ContentException(err) ==
    CASE err = "BodyReadTimeout" -> "ConnectionError"
      [] OTHER -> "ChunkedEncodingError"

\* the classes of requests.exceptions an exception is an instance of
IsInstance(exc, cls) ==
    CASE cls = "ConnectionError" -> exc \in {"ConnectionError", "ConnectTimeout"}
      [] cls = "Timeout" -> exc \in {"ConnectTimeout", "ReadTimeout"}
      [] cls = "RequestException" -> TRUE
      [] OTHER -> FALSE

\* what urlopen raised: the urllib3 error, and for a ResponseError the status
\* of the response that exhausted the retries
Cause(reason, status) == [reason |-> reason, status |-> status]

\* str() of the urllib3 connection pool of the session's host
PoolOf(u) ==
    IF u.scheme = "https:"
    THEN <<"HTTPSConnectionPool(host='", u.netloc, "', port=443)">>
    ELSE <<"HTTPConnectionPool(host='", u.netloc, "', port=80)">>

\* the pool of the session's base URL
PoolText(s) == PoolOf(UrlParse(s.base_url))

\* str() of the urllib3 error, in pieces; the connect and read timeouts are the
\* timeout the session passes to every request
ReasonText(cause, s) ==
    CASE cause.reason = "NewConnectionError" ->
            <<"Failed to establish a new connection: ", "Connection refused">>
      [] cause.reason = "ConnectTimeoutError" ->
            <<"Connection to ", UrlParse(s.base_url).netloc, " ", "timed out",
              ". (connect timeout=", ToString(s.timeout), ")">>
      [] cause.reason = "ReadTimeoutError" ->
            PoolText(s) \o <<": Read ", "timed out", ". (read timeout=",
                             ToString(s.timeout), ")">>
      [] cause.reason = "ResponseError" ->
            <<"too many ", ToString(cause.status), " error responses">>
      [] cause.reason = "BodyReadTimeout" ->
            PoolText(s) \o <<": Read ", "timed out", ".">>
      [] cause.reason = "BodyIncomplete" ->
            <<"Connection broken: ", "IncompleteRead">>
      [] OTHER -> <<>>

\* str(e) of the exception session.request raised, in pieces: a MaxRetryError
\* names the pool and its reason, an error raised without retry is the reason
\* itself
ExceptionText(exc, cause, s) ==
    IF exc = "ReadTimeout" \/ cause.reason \in BodyErrors
    THEN ReasonText(cause, s)
    ELSE PoolText(s) \o <<": Max retries exceeded with url (Caused by ">>
            \o ReasonText(cause, s) \o <<")">>

(***************************************************************************)
(* FrappeClient: classification of the outcome of session.request.         *)
(***************************************************************************)
NoResult == [kind |-> "none", payload |-> NoValue, message |-> <<>>]

Payload(v) == [kind |-> "payload", payload |-> v, message |-> <<>>]

\* Faulty variant: the cause left out of the message
ConnectionFailure_NoCause(s, exc, cause) ==
    [ kind |-> "ConnectionFailure",
      payload |-> NoValue,
      message |->
        IF IsInstance(exc, "ConnectionError")
        THEN <<"Failed to connect to ", Text(s.base_url)>>
        ELSE IF IsInstance(exc, "Timeout")
        THEN <<"Request timed out after ", ToString(s.timeout), " seconds">>
        ELSE <<"Request failed">> ]

\* Faulty variant: the base URL left out of the message
ConnectionFailure_NoBaseUrl(s, exc, cause) ==
    [ kind |-> "ConnectionFailure",
      payload |-> NoValue,
      message |->
        IF IsInstance(exc, "ConnectionError")
        THEN <<"Failed to connect: ">> \o ExceptionText(exc, cause, s)
        ELSE IF IsInstance(exc, "Timeout")
        THEN <<"Request timed out after ", ToString(s.timeout), " seconds: ">>
                \o ExceptionText(exc, cause, s)
        ELSE <<"Request failed: ">> \o ExceptionText(exc, cause, s) ]

\* FrappeConnectionError(msg): the except clauses of _make_request, in order;
\* the message is kept in the pieces the f-string joins
ConnectionFailure(s, exc, cause) ==
    [ kind |-> "ConnectionFailure",
      payload |-> NoValue,
      message |->
        IF IsInstance(exc, "ConnectionError")
        THEN <<"Failed to connect to ", Text(s.base_url), ": ">>
                \o ExceptionText(exc, cause, s)
        ELSE IF IsInstance(exc, "Timeout")
        THEN <<"Request timed out after ", ToString(s.timeout), " seconds: ">>
                \o ExceptionText(exc, cause, s)
        ELSE <<"Request failed: ">> \o ExceptionText(exc, cause, s) ]

\* Faulty variant: success as the range 200..399
Ok_SuccessRange(r) == 200 <= r.status /\ r.status < 400

\* response.ok: raise_for_status raises for 400 <= status < 600
Ok(r) == ~(400 <= r.status /\ r.status < 600)

\* _handle_error_response: the detail of the message
ErrorMessage(r) ==
    LET error_data == ResponseJson(r.text) IN
    IF error_data = NoValue THEN r.text              \* json() raised
    ELSE IF ~IsDict(error_data) THEN r.text          \* .get raised AttributeError
    ELSE IF HasKey(error_data, "message") THEN PyStr(error_data.m["message"])
    ELSE r.text                                      \* .get's default

\* Faulty variant: no try/except around json() and .get: a body that is no mapping
\* makes the handler raise what json() or .get raised
HandleErrorResponse_Unguarded(r) ==
    IF IsDict(ResponseJson(r.text))
    THEN [ kind |-> "APIFailure",
           payload |-> NoValue,
           message |-> <<"API request failed with status ", ToString(r.status), ": ",
                         ErrorMessage(r)>> ]
    ELSE [ kind |-> "AttributeError", payload |-> NoValue, message |-> <<>> ]

\* _handle_error_response: always raises FrappeAPIError
HandleErrorResponse(r) ==
    [ kind |-> "APIFailure",
      payload |-> NoValue,
      message |-> <<"API request failed with status ", ToString(r.status), ": ",
                    ErrorMessage(r)>> ]

\* Faulty variant: "data" looked up before "message"
ParseResponse_DataFirst(r) ==
    LET data == ResponseJson(r.text) IN
    IF data = NoValue THEN JStr(r.text)
    ELSE IF ~IsDict(data) THEN data
    ELSE IF HasKey(data, "data") THEN data.m["data"]
    ELSE IF HasKey(data, "message") THEN data.m["message"]
    ELSE data

\* Faulty variant: the raw text for every body that is no mapping
ParseResponse_TextForNonDict(r) ==
    LET data == ResponseJson(r.text) IN
    IF ~IsDict(data) THEN JStr(r.text)
    ELSE IF HasKey(data, "message") THEN data.m["message"]
    ELSE IF HasKey(data, "data") THEN data.m["data"]
    ELSE data

\* Faulty variant: a null "message" is passed over for "data"
ParseResponse_Truthy(r) ==
    LET data == ResponseJson(r.text) IN
    IF data = NoValue THEN JStr(r.text)
    ELSE IF ~IsDict(data) THEN data
    ELSE IF HasKey(data, "message") /\ data.m["message"] # JNull THEN data.m["message"]
    ELSE IF HasKey(data, "data") THEN data.m["data"]
    ELSE data

\* _parse_response
ParseResponse(r) ==
    LET data == ResponseJson(r.text) IN
    IF data = NoValue THEN JStr(r.text)
    ELSE IF ~IsDict(data) THEN data
    ELSE IF HasKey(data, "message") THEN data.m["message"]
    ELSE IF HasKey(data, "data") THEN data.m["data"]
    ELSE data

\* Faulty variant: the verb normalizes the response without the status check
Returned_ParseFirst(r) == Payload(ParseResponse(r))

\* _make_request after session.request returned r, then the verb's _parse_response
Returned(r) ==
    IF ~Ok(r) THEN HandleErrorResponse(r) ELSE Payload(ParseResponse(r))

(***************************************************************************)
(* The state machine.                                                      *)
(***************************************************************************)
(***************************************************************************)
(* Config (src/src/frappecli/config.py) and get_client.  A site            *)
(* configuration is the sequence of its <<field, value>> pairs in the      *)
(* order of the file; every value is a string, as a token sequence in      *)
(* which a placeholder ${VAR} is one token.                                *)
(***************************************************************************)
HasField(items, key) == \E i \in 1..Len(items) : items[i][1] = key
Field(items, key) == items[CHOOSE i \in 1..Len(items) : items[i][1] = key][2]

\* what a site lookup ends in: the record returned or the ConfigError raised;
\* name is the --site option get_client made the lookup for ("" if none)
ConfigError(message) ==
    [kind |-> "ConfigError", name |-> "", record |-> <<>>, message |-> message]
SiteRecord(items) == [kind |-> "record", name |-> "", record |-> items, message |-> <<>>]
NoSite == [kind |-> "none", name |-> "", record |-> <<>>, message |-> <<>>]

\* the environment variables the configurations of this model name
EnvVars == {"FRAPPE_API_KEY", "FRAPPE_URL"}
Placeholder(var) == "${" \o var \o "}"
IsPlaceholder(token) == \E var \in EnvVars : token = Placeholder(var)
VarName(token) == CHOOSE var \in EnvVars : token = Placeholder(var)

RECURSIVE FirstUnset(_, _)
\* replace_var: the first variable a value names that os.environ lacks ("" if none)
FirstUnset(value, e) ==
    IF value = <<>> THEN ""
    ELSE IF IsPlaceholder(value[1]) /\ VarName(value[1]) \notin DOMAIN e
    THEN VarName(value[1])
    ELSE FirstUnset(Tail(value), e)

\* Faulty variant: the placeholders are left in the value
SubstituteEnvVars_Keep(value, e) == value

RECURSIVE SubstituteEnvVars(_, _)
\* _substitute_env_vars, every variable being set
SubstituteEnvVars(value, e) ==
    IF value = <<>> THEN <<>>
    ELSE (IF IsPlaceholder(value[1]) THEN e[VarName(value[1])] ELSE <<value[1]>>)
            \o SubstituteEnvVars(Tail(value), e)

\* processed[key] = ... in front of the rest of the processed fields
Processed(item, rest) ==
    IF rest.kind = "record" THEN SiteRecord(<<item>> \o rest.record) ELSE rest

RECURSIVE ProcessSiteConfig(_, _)
\* _process_site_config: the fields in their order; the first unset variable raises
ProcessSiteConfig(items, e) ==
    IF items = <<>> THEN SiteRecord(<<>>)
    ELSE IF FirstUnset(items[1][2], e) # ""
    THEN ConfigError(<<"Environment variable '", FirstUnset(items[1][2], e),
                       "' is not set">>)
    ELSE Processed(<<items[1][1], SubstituteEnvVars(items[1][2], e)>>,
                   ProcessSiteConfig(Tail(items), e))

\* Faulty variant: the URL is required to have a scheme only
ValidUrl_SchemeOnly(parsed) == parsed.scheme # ""

\* not (not parsed.scheme or not parsed.netloc)
ValidUrl(parsed) == parsed.scheme # "" /\ parsed.netloc # ""

\* validate_site_config: the first required field that is missing ("" if none)
MissingField(items) ==
    IF ~HasField(items, "url") THEN "url"
    ELSE IF ~HasField(items, "api_key") THEN "api_key"
    ELSE IF ~HasField(items, "api_secret") THEN "api_secret"
    ELSE ""

\* validate_site_config, and the return of get_site_config after it
ValidateSiteConfig(items) ==
    IF MissingField(items) # ""
    THEN ConfigError(<<"Missing required field: ", MissingField(items)>>)
    ELSE IF ~ValidUrl(UrlParse(Field(items, "url")))
    THEN ConfigError(<<"Invalid URL format: ", Text(Field(items, "url"))>>)
    ELSE SiteRecord(items)

\* get_site_config from its call of _process_site_config on
Validated(processed) ==
    IF processed.kind = "record" THEN ValidateSiteConfig(processed.record) ELSE processed

\* Config.get_site_config(site_name)
GetSiteConfig(d, e, site_name) ==
    IF "sites" \notin DOMAIN d THEN ConfigError(<<"No sites configured">>)
    ELSE IF site_name \notin DOMAIN d.sites
    THEN ConfigError(<<"Site '", site_name, "' not found in configuration">>)
    ELSE Validated(ProcessSiteConfig(d.sites[site_name], e))

\* Faulty variant: without a default_site the site named "test" is taken
GetDefaultSiteConfig_Fallback(d, e) ==
    GetSiteConfig(d, e, IF "default_site" \in DOMAIN d THEN d.default_site ELSE "test")

\* Config.get_default_site_config()
GetDefaultSiteConfig(d, e) ==
    IF "default_site" \notin DOMAIN d THEN ConfigError(<<"No default site configured">>)
    ELSE GetSiteConfig(d, e, d.default_site)

\* get_client: the named site, the default site when no site is named
SiteConfigFor(d, e, site_name) ==
    IF site_name # "" THEN GetSiteConfig(d, e, site_name) ELSE GetDefaultSiteConfig(d, e)

\* A configuration file: whether the path exists, whether its text is YAML,
\* and the document yaml.safe_load makes of it ([t |-> "dict", m |-> data]
\* for a mapping; a list, a string or null otherwise)
YamlFile(doc) == [exists |-> TRUE, yaml |-> TRUE, doc |-> doc]
MappingFile(d) == YamlFile([t |-> "dict", m |-> d])
MissingFile == [exists |-> FALSE, yaml |-> FALSE, doc |-> [t |-> "null", m |-> <<>>]]
InvalidYamlFile == [exists |-> TRUE, yaml |-> FALSE, doc |-> [t |-> "null", m |-> <<>>]]

\* what Config(config_path) is after _load_config returned `d`
Loaded(d) == [kind |-> "Config", data |-> d]

\* Config.__init__ / _load_config
LoadConfig(file) ==
    IF ~file.exists THEN ConfigError(<<"Configuration file not found: ", "config.yaml">>)
    ELSE IF ~file.yaml THEN ConfigError(<<"Invalid YAML in configuration file: ", "">>)
    ELSE IF file.doc.t # "dict"
    THEN ConfigError(<<"Configuration file must contain a dictionary">>)
    ELSE Loaded(file.doc.m)

\* get_client up to site_config: Config(config_path), then the lookup
ConfigSite(loaded, e, site_name) ==
    IF loaded.kind = "ConfigError" THEN loaded ELSE SiteConfigFor(loaded.data, e, site_name)

\* get_client: FrappeClient(base_url=site_config["url"], ...)
ClientOf(site_config) ==
    FrappeClient(Field(site_config, "url"), Text(Field(site_config, "api_key")),
                 Text(Field(site_config, "api_secret")), DefaultTimeout)

\* the site the commands of this model run against, and its API credentials
SiteUrl == <<"https:", "/", "/", "test.example.com">>
ApiKey == "test_key"
ApiSecret == "test_secret"

\* a site configuration with all three fields
Site(url, api_key, api_secret) ==
    << <<"url", url>>, <<"api_key", api_key>>, <<"api_secret", api_secret>> >>

\* the configuration file of that site
TestConfig ==
    MappingFile([ sites |-> [n \in {"test"} |-> Site(SiteUrl, <<ApiKey>>, <<ApiSecret>>)],
                  default_site |-> "test" ])

NoBuilt == [path |-> <<>>, params |-> JNull, url |-> <<>>]

\* the paths, query parameters and bodies the commands pass
Paths ==
    { <<"/", "api", "/", "resource", "/", "User">>,
      <<"api", "/", "resource", "/", "User">> }
Params == { JNull, PyDict(<< <<"limit_page_length", JNum("20")>> >>) }
Datas == { JNull, JMap([email |-> JStr("new@example.com")]) }

NoRequest == [method |-> "", url |-> <<>>, headers |-> <<>>, body |-> ""]

\* session.request(method, url, json=data): the prepared request carries the
\* session's headers and, unless data is None, the JSON text of data as body
PrepareRequest(s, m, url, data) ==
    [ method |-> m,
      url |-> url,
      headers |-> s.headers,
      body |-> IF data = JNull THEN "" ELSE JsonDumps(data) ]

\* Faulty variant: a request gets what the operation before it left of the budget
RequestBudget_LeftOver(s, used) == s.max_retries.total - used

\* HTTPAdapter.send: urlopen(..., retries=self.max_retries), whatever the
\* requests before it used of theirs
RequestBudget(s, used) == s.max_retries.total

\* Faulty variant: the budget is counted down on the Retry object the adapter holds
SessionAfterAttempt_Shared(s, total) == [s EXCEPT !.max_retries.total = total]

\* the session after an attempt left `total` retries: Retry.increment returns a
\* new Retry object, the one mounted on the session is not written
SessionAfterAttempt(s, total) == s

\* no command runs: the caller of the client is left open.  Of a command:
\* its name and options, where it is (pc), what it printed (output), how it
\* ended (exit: "returned" or the exception it raised), the verbs it called
\* on the client; of bulk-upload also the paths matched, how many of them
\* are processed, the uploads posted and answered, the two counters, and what
\* each processed path met (log)
NoCommand ==
    [ name |-> "", pc |-> "", options |-> <<>>, output |-> <<>>, exit |-> "",
      verbs |-> <<>>, files |-> <<>>, processed |-> 0, posts |-> 0, answered |-> 0,
      success |-> 0, failed |-> 0, log |-> <<>> ]

\* the state after get_client has constructed the client of the default site
Init ==
    /\ config = TestConfig
    /\ env = <<>>
    /\ site = ConfigSite(LoadConfig(config), env, "")
    /\ session = ClientOf(site.record)
    /\ built = NoBuilt
    /\ pc = "idle"
    /\ method = ""
    /\ retries = 0
    /\ answers = <<>>
    /\ error = "none"
    /\ calls = 0
    /\ response = NoResponse
    /\ raised = "none"
    /\ result = NoResult
    /\ ops = 0
    /\ request = NoRequest
    /\ wire = NoRequest
    /\ slept = <<>>
    /\ spent = 0
    /\ cmd = NoCommand

\* _make_request(method, path, data, params), data being `body` here: builds
\* the URL and starts
\* session.request, which takes the adapter's max_retries as the budget of this
\* request
MakeRequest(m, path, body, params) ==
    /\ pc = "idle"
    /\ ops < MaxOps
    /\ pc' = "sending"
    /\ method' = m
    /\ request' = PrepareRequest(session, m, BuildUrl(session, path, params), body)
    /\ wire' = NoRequest
    /\ retries' = RequestBudget(session, spent)
    /\ answers' = <<>>
    /\ error' = "none"
    /\ calls' = 0
    /\ response' = NoResponse
    /\ raised' = "none"
    /\ result' = NoResult
    /\ slept' = <<>>
    /\ UNCHANGED <<session, ops, config, env, site, built, spent>>

Get(path, params) == MakeRequest("GET", path, JNull, params) /\ UNCHANGED cmd

Post(path, data) == MakeRequest("POST", path, data, JNull) /\ UNCHANGED cmd

Put(path, data) == MakeRequest("PUT", path, data, JNull) /\ UNCHANGED cmd

Delete(path) == MakeRequest("DELETE", path, JNull, JNull) /\ UNCHANGED cmd

\* one attempt that ends in a transport error: urlopen's except clause
AttemptError(err) ==
    /\ pc = "sending"
    /\ calls' = calls + 1
    /\ wire' = request
    /\ response' = NoResponse
    /\ answers' = Append(answers, err)
    /\ error' = err
    /\ IF ~ErrorIsRetried(session.max_retries, method, err)
       THEN /\ raised' = AdapterReraised(err)
            /\ result' = ConnectionFailure(session, raised', Cause(err, 0))
            /\ pc' = "done"
            /\ UNCHANGED <<retries, slept>>
       ELSE /\ retries' = Increment(retries)
            /\ IF IsExhausted(retries')
               THEN /\ raised' = AdapterException(err)
                    /\ result' = ConnectionFailure(session, raised', Cause(err, 0))
                    /\ pc' = "done"
                    /\ UNCHANGED slept
               ELSE \* retries.sleep(), then the next attempt
                    /\ slept' = Append(slept, SleepTime(session.max_retries,
                                                        Len(answers'), FALSE))
                    /\ pc' = "sending"
                    /\ UNCHANGED <<raised, result>>
    /\ session' = SessionAfterAttempt(session, retries')
    /\ UNCHANGED <<method, ops, request, config, env, site, built, spent, cmd>>

\* one attempt the server answers: urlopen's is_retry check on the response
AttemptResponse(r) ==
    /\ pc = "sending"
    /\ calls' = calls + 1
    /\ wire' = request
    /\ response' = r
    /\ answers' = Append(answers, AnswerOf(r))
    /\ error' = "none"
    /\ IF IsRetry(session.max_retries, retries, method, r.status, r.retry_after)
       THEN /\ retries' = Increment(retries)
            /\ IF IsExhausted(retries')
               THEN \* MaxRetryError(ResponseError): re-raised under raise_on_status
                    /\ raised' = IF session.max_retries.raise_on_status
                                 THEN AdapterException("ResponseError")
                                 ELSE "none"
                    /\ result' = IF raised' # "none"
                                 THEN ConnectionFailure(session, raised',
                                                        Cause("ResponseError", r.status))
                                 ELSE Returned(r)
                    /\ pc' = "done"
                    /\ UNCHANGED slept
               ELSE \* retries.sleep(response), then the next attempt
                    /\ slept' = Append(slept, SleepTime(session.max_retries,
                                                        Len(answers'), r.retry_after))
                    /\ pc' = "sending"
                    /\ UNCHANGED <<raised, result>>
       ELSE /\ raised' = "none"
            /\ result' = Returned(r)
            /\ pc' = "done"
            /\ UNCHANGED <<retries, slept>>
    /\ session' = SessionAfterAttempt(session, retries')
    /\ UNCHANGED <<method, ops, request, config, env, site, built, spent, cmd>>

\* one attempt whose response urlopen returns (no retry is due) and whose body
\* then fails to arrive: requests reads the body inside session.request and
\* raises what reading it raised
AttemptBodyError(r, err) ==
    /\ pc = "sending"
    /\ ~IsRetry(session.max_retries, retries, method, r.status, r.retry_after)
    /\ calls' = calls + 1
    /\ wire' = request
    /\ response' = r
    /\ answers' = Append(answers, err)
    /\ error' = err
    /\ raised' = ContentException(err)
    /\ result' = ConnectionFailure(session, raised', Cause(err, r.status))
    /\ pc' = "done"
    /\ session' = SessionAfterAttempt(session, retries)
    /\ UNCHANGED <<method, ops, request, retries, config, env, site, built, slept, spent,
                   cmd>>

\* the verb returns (or raises) to its caller
VerbReturns ==
    /\ pc = "done"
    /\ pc' = "idle"
    /\ ops' = ops + 1
    /\ method' = ""
    /\ retries' = 0
    /\ answers' = <<>>
    /\ error' = "none"
    /\ calls' = 0
    /\ response' = NoResponse
    /\ raised' = "none"
    /\ result' = NoResult
    /\ request' = NoRequest
    /\ wire' = NoRequest
    /\ slept' = <<>>
    /\ UNCHANGED <<session, config, env, site, built>>

\* the verb returns (or raises) to the calling command
Return == VerbReturns /\ UNCHANGED <<spent, cmd>>

Next ==
    \/ \E path \in Paths, params \in Params : Get(path, params)
    \/ \E path \in Paths, data \in Datas : Post(path, data)
    \/ \E path \in Paths, data \in Datas : Put(path, data)
    \/ \E path \in Paths : Delete(path)
    \/ \E err \in TransportErrors : AttemptError(err)
    \/ \E r \in ServerResponses : AttemptResponse(r)
    \/ \E r \in Heads, err \in BodyErrors : AttemptBodyError(r, err)
    \/ Return

Spec == Init /\ [][Next]_vars

(***************************************************************************)
(* Operations one after the other on one session, and the attempts of one  *)
(* operation, for answers that differ in status and headers only.          *)
(***************************************************************************)
\* the answers of the server by status and Retry-After header, without a body
AttemptAnswers ==
    Heads \cup { [status |-> st, retry_after |-> TRUE, text |-> ""] : st \in WithRetryAfter }

\* the verb returns (or raises); the retries it made are noted
ReturnCounted ==
    /\ VerbReturns
    /\ spent' = calls - 1
    /\ UNCHANGED cmd

VerbCalled ==
    \/ \E path \in Paths, params \in Params : Get(path, params)
    \/ \E path \in Paths, data \in Datas : Post(path, data)
    \/ \E path \in Paths, data \in Datas : Put(path, data)
    \/ \E path \in Paths : Delete(path)

BudgetNext ==
    \/ VerbCalled
    \/ \E err \in TransportErrors : AttemptError(err)
    \/ \E r \in AttemptAnswers : AttemptResponse(r)
    \/ \E r \in Heads, err \in BodyErrors : AttemptBodyError(r, err)
    \/ ReturnCounted

BudgetSpec == Init /\ [][BudgetNext]_vars

\* the statuses requests follows when the response has a Location header
RedirectStatuses == {301, 302, 303, 307, 308}

\* SessionRedirectMixin.rebuild_method
RebuildMethod(m, status) ==
    IF status \in {302, 303} /\ m # "HEAD" THEN "GET"
    ELSE IF status = 301 /\ m = "POST" THEN "GET"
    ELSE m

\* SessionRedirectMixin.resolve_redirects: the request for the Location of a
\* redirect; unless the status is 307 or 308 the body and its Content-Type
\* are dropped
Redirected(req, status, location) ==
    [ method |-> RebuildMethod(req.method, status),
      url |-> location,
      headers |-> IF status \in {307, 308} THEN req.headers
                  ELSE [req.headers EXCEPT !.ContentType = ""],
      body |-> IF status \in {307, 308} THEN req.body ELSE "" ]

\* the redirects the operation has followed
Hops == Cardinality({ i \in 1..Len(answers) : answers[i] = "redirect" })

\* one attempt the server answers with a redirect: urlopen returns the response
\* (redirect=False, not a retried status), session.request follows it
\* (allow_redirects is True) with a new request, for which the adapter takes
\* its max_retries anew
AttemptRedirect(status, location) ==
    /\ pc = "sending"
    /\ status \in RedirectStatuses
    /\ Hops < MaxRedirects
    /\ calls' = calls + 1
    /\ wire' = request
    /\ response' = [status |-> status, retry_after |-> FALSE, text |-> ""]
    /\ answers' = Append(answers, "redirect")
    /\ error' = "none"
    /\ request' = Redirected(request, status, location)
    /\ retries' = RequestBudget(session, spent)
    /\ pc' = "sending"
    /\ UNCHANGED <<session, method, raised, result, ops, config, env, site, built, slept,
                   spent, cmd>>

\* what an attempt meets, one of a kind: an error that is retried, a status
\* that is retried (with and without Retry-After), a success and a failure
\* status, a body that breaks off, a redirect that keeps the method and one
\* that does not
FewErrors == {"ConnectTimeoutError"}
FewAnswers == { r \in AttemptAnswers : r.status \in {200, 404, 503} }
FewRedirects == {302, 307}
LoginUrl == UrlJoin(session.base_url, <<"/", "login">>)
ResourcePath == <<"/", "api", "/", "resource", "/", "User">>

\* one attempt of the operation in progress, whatever it meets
AttemptStep ==
    \/ \E err \in FewErrors : AttemptError(err)
    \/ \E r \in FewAnswers : AttemptResponse(r)
    \/ \E r \in FewAnswers : AttemptBodyError(r, "BodyIncomplete")
    \/ \E status \in FewRedirects : AttemptRedirect(status, LoginUrl)

AttemptsNext ==
    \/ Get(ResourcePath, JNull)
    \/ \E data \in Datas : Post(ResourcePath, data)
    \/ \E data \in Datas : Put(ResourcePath, data)
    \/ Delete(ResourcePath)
    \/ AttemptStep
    \/ Return

\* every attempt returns or fails within the timeout: an operation in
\* progress is not left without the answer to its attempt
AttemptsSpec == Init /\ [][AttemptsNext]_vars /\ WF_vars(AttemptStep)

(***************************************************************************)
(* Client setup: one run of a command from its configuration file and      *)
(* environment to the client get_client constructs, and the URLs that      *)
(* client builds.                                                          *)
(***************************************************************************)
\* the site configurations of the file, by site name
Sites ==
    ("test" :> Site(SiteUrl, <<ApiKey>>, <<ApiSecret>>))
    @@ ("slash" :> Site(SiteUrl \o <<"/">>, <<ApiKey>>, <<ApiSecret>>))
    @@ ("slashes" :> Site(SiteUrl \o <<"/", "/">>, <<ApiKey>>, <<ApiSecret>>))
    @@ ("sub" :> Site(SiteUrl \o <<"/", "sub">>, <<ApiKey>>, <<ApiSecret>>))
    @@ ("subslash" :> Site(SiteUrl \o <<"/", "sub", "/">>, <<ApiKey>>, <<ApiSecret>>))
    @@ ("http" :> Site(<<"http:", "/", "/", "erp.example.com">>, <<"k">>, <<"s">>))
    @@ ("nourl" :> << <<"api_key", <<ApiKey>> >>, <<"api_secret", <<ApiSecret>> >> >>)
    @@ ("nokey" :> << <<"url", SiteUrl>>, <<"api_secret", <<ApiSecret>> >> >>)
    @@ ("nosecret" :> << <<"url", SiteUrl>>, <<"api_key", <<ApiKey>> >> >>)
    @@ ("noscheme" :> Site(<<"not-a-valid-url">>, <<ApiKey>>, <<ApiSecret>>))
    @@ ("nonetloc" :> Site(<<"https:", "/", "/">>, <<ApiKey>>, <<ApiSecret>>))
    @@ ("oneslash" :> Site(<<"https:", "/", "test.example.com">>, <<ApiKey>>, <<ApiSecret>>))
    @@ ("envkey" :> Site(SiteUrl, <<Placeholder("FRAPPE_API_KEY")>>, <<ApiSecret>>))
    @@ ("envurl" :> Site(<<Placeholder("FRAPPE_URL")>>,
                         <<"key-", Placeholder("FRAPPE_API_KEY")>>, <<ApiSecret>>))
    @@ ("envnourl" :> << <<"api_key", <<Placeholder("FRAPPE_API_KEY")>> >>,
                         <<"api_secret", <<ApiSecret>> >> >>)
    @@ ("empty" :> <<>>)

\* the names a command is run with: the configured sites, one that is not
\* configured, and "" for no --site option
SiteNames == DOMAIN Sites \cup {"ghost", ""}

\* the configuration files a command is run with
Configs ==
    { MappingFile([sites |-> Sites, default_site |-> d]) :
        d \in {"test", "slashes", "noscheme", "ghost", "envurl"} }
        \cup { MappingFile([sites |-> Sites]), MappingFile([default_site |-> "test"]),
               MappingFile(<<>>), MissingFile, InvalidYamlFile,
               YamlFile([t |-> "list", m |-> <<>>]), YamlFile([t |-> "null", m |-> <<>>]) }

\* os.environ: nothing set, the key only, the key and a URL, the key and
\* something that is no URL
Envs ==
    { <<>>,
      [var \in {"FRAPPE_API_KEY"} |-> <<"env_key">>],
      ("FRAPPE_API_KEY" :> <<"env_key">>) @@ ("FRAPPE_URL" :> <<"http:", "/", "/", "erp.example.com">>),
      ("FRAPPE_API_KEY" :> <<"env_key">>) @@ ("FRAPPE_URL" :> <<"not-a-valid-url">>),
      [var \in {"FRAPPE_URL"} |-> SiteUrl] }

\* the paths and query parameters _build_url is called with
BuildPaths ==
    Paths \cup { <<>>, <<"/">>, <<"x">>, <<"/", "api", "/", "/", "x">>,
                 <<"/", "/", "evil.example", "/", "x">>, <<"/", "/", "/", "x">>,
                 <<"/", "/">> }

Filters == JList("[[\"status\", \"=\", \"Open\"]]")

BuildParams ==
    Params \cup
    { PyDict(<<>>),
      PyDict(<< <<"limit_page_length", JNum("20")>>, <<"filters", Filters>> >>),
      PyDict(<< <<"filters", Filters>>, <<"limit_page_length", JNum("20")>> >>),
      PyDict(<< <<"fields", JStr("[\"name\", \"module\"]")>>,
                <<"filters", JMap([module |-> JStr("Core")])>>,
                <<"order_by", JStr("creation desc")>> >>),
      PyDict(<< <<"as_dict", JBool("True")>> >>) }

SetupInit ==
    /\ config \in Configs
    /\ env \in Envs
    /\ site = NoSite
    /\ session = NoSession
    /\ built = NoBuilt
    /\ pc = "idle"
    /\ method = ""
    /\ retries = 0
    /\ answers = <<>>
    /\ error = "none"
    /\ calls = 0
    /\ response = NoResponse
    /\ raised = "none"
    /\ result = NoResult
    /\ ops = 0
    /\ request = NoRequest
    /\ wire = NoRequest
    /\ slept = <<>>
    /\ spent = 0
    /\ cmd = NoCommand

\* get_client: loads the configuration file, looks the site up and, unless
\* one of the two raised, constructs the client from the record returned
GetClient(site_name) ==
    /\ site = NoSite
    /\ site' = [ConfigSite(LoadConfig(config), env, site_name) EXCEPT !.name = site_name]
    /\ session' = IF site'.kind = "record" THEN ClientOf(site'.record) ELSE session
    /\ UNCHANGED <<pc, method, retries, answers, error, calls, response, raised, result,
                   ops, request, wire, config, env, built, slept, spent, cmd>>

\* _build_url(path, params) on the constructed client
CallBuildUrl(path, params) ==
    /\ session # NoSession
    /\ built' = [path |-> path, params |-> params, url |-> BuildUrl(session, path, params)]
    /\ UNCHANGED <<session, pc, method, retries, answers, error, calls, response, raised,
                   result, ops, request, wire, config, env, site, slept, spent, cmd>>

SetupNext ==
    \/ \E site_name \in SiteNames : GetClient(site_name)
    \/ \E path \in BuildPaths, params \in BuildParams : CallBuildUrl(path, params)

SetupSpec == SetupInit /\ [][SetupNext]_vars

(***************************************************************************)
(* Commands (src/src/frappecli/commands): one run of doc create, doc       *)
(* update, doc delete or bulk-upload, from the client it constructs to its *)
(* exit, without --json.                                                   *)
(***************************************************************************)
\* every variable but cmd
client_vars ==
    <<session, pc, method, retries, answers, error, calls, response, raised, result, ops,
      request, wire, config, env, site, built, slept, spent>>

\* f"/api/resource/{doctype}/{name}" of the document doc update and doc
\* delete are run on, the User jane@example.com
DocumentPath == <<"/", "api", "/", "resource", "/", "User", "/", "jane@example.com">>

\* the --data option: a JSON object, and text that is not JSON
DataStrings == {"{\"email\": \"new@example.com\"}", "not json"}

\* json.dumps(v, indent=2)
JsonDumpsIndent(v) ==
    IF v = JMap([email |-> JStr("new@example.com")])
    THEN "{\n  \"email\": \"new@example.com\"\n}"
    ELSE JsonDumps(v)

\* a command called with its options, its client not yet constructed
Command(name, options) == [NoCommand EXCEPT !.name = name, !.options = options]

\* the command ends: it returns, or raises `exit`
Exits(c, exit, printed) == [c EXCEPT !.pc = "exit", !.exit = exit, !.output = @ \o printed]

\* a command starts in a process of its own
Starts == cmd = NoCommand /\ pc = "idle" /\ ops = 0

\* Faulty variant: the prompt is not looked at
Confirmed_Always(yes, answer) == TRUE

\* delete_document: not (not yes and not click.confirm(...)); the prompt is
\* shown only without --yes
Confirmed(yes, answer) == yes \/ answer = "y"

\* delete_document up to client.delete: answer is what the user gives the
\* prompt ("y", "n", or "abort" for end of input, on which click raises Abort)
DeleteDocument(yes, answer) ==
    /\ Starts
    /\ LET c == Command("delete", [yes |-> yes, answer |-> answer]) IN
       IF site.kind # "record"
       THEN cmd' = Exits(c, "ConfigError", <<>>) /\ UNCHANGED client_vars
       ELSE IF ~yes /\ answer = "abort"
       THEN cmd' = Exits(c, "Abort", <<>>) /\ UNCHANGED client_vars
       ELSE IF ~Confirmed(yes, answer)
       THEN cmd' = Exits(c, "returned", <<"Cancelled">>) /\ UNCHANGED client_vars
       ELSE /\ MakeRequest("DELETE", DocumentPath, JNull, JNull)
            /\ cmd' = [c EXCEPT !.pc = "calling", !.verbs = <<"DELETE">>]

\* delete_document from the return of client.delete on
DeleteDocumentReturns ==
    /\ cmd.name = "delete"
    /\ cmd.pc = "calling"
    /\ VerbReturns
    /\ spent' = spent
    /\ cmd' = IF result.kind = "payload"
              THEN Exits(cmd, "returned", <<"Deleted User: jane@example.com">>)
              ELSE Exits(cmd, result.kind, <<>>)

\* Faulty variant: --dry-run is looked at after the call
DryRun_Late(dry_run) == FALSE

\* create_document / update_document: if dry_run
DryRun(dry_run) == dry_run

\* create_document (verb POST) and update_document (verb PUT) up to the call
\* of the client: _get_client, _load_data, the dry run
WriteDocument(name, verb, path, data, dry_run) ==
    /\ pc = "idle"
    /\ LET c == Command(name, [data |-> data, dry_run |-> dry_run]) IN
       IF site.kind # "record"
       THEN cmd' = Exits(c, "ConfigError", <<>>) /\ UNCHANGED client_vars
       ELSE IF JsonLoads(data) = NoValue
       THEN cmd' = Exits(c, "JSONDecodeError", <<>>) /\ UNCHANGED client_vars
       ELSE IF DryRun(dry_run)
       THEN /\ cmd' = Exits(c, "returned",
                            <<"DRY RUN - Would ", name, JsonDumpsIndent(JsonLoads(data))>>)
            /\ UNCHANGED client_vars
       ELSE /\ MakeRequest(verb, path, JsonLoads(data), JNull)
            /\ cmd' = [c EXCEPT !.pc = "calling", !.verbs = <<verb>>]

CreateDocument(data, dry_run) ==
    /\ Starts
    /\ WriteDocument("create", "POST", <<"/", "api", "/", "resource", "/", "User">>, data,
                     dry_run)

UpdateDocument(data, dry_run) ==
    Starts /\ WriteDocument("update", "PUT", DocumentPath, data, dry_run)

\* create_document from the return of client.post on: result.get('name')
\* raises AttributeError for a payload that is no mapping
CreateDocumentReturns ==
    /\ cmd.name = "create"
    /\ cmd.pc = "calling"
    /\ VerbReturns
    /\ spent' = spent
    /\ cmd' = IF result.kind # "payload" THEN Exits(cmd, result.kind, <<>>)
              ELSE IF ~IsDict(result.payload) THEN Exits(cmd, "AttributeError", <<>>)
              ELSE Exits(cmd, "returned", <<"Created User">>)

\* update_document from the return of client.put on
UpdateDocumentReturns ==
    /\ cmd.name = "update"
    /\ cmd.pc = "calling"
    /\ VerbReturns
    /\ spent' = spent
    /\ cmd' = IF result.kind = "payload"
              THEN Exits(cmd, "returned", <<"Updated User: jane@example.com">>)
              ELSE Exits(cmd, result.kind, <<>>)

\* the paths a pattern of bulk-upload can match, a directory among them
MatchedPaths == {"a.pdf", "b.pdf", "docs"}

\* list(Path().glob(pattern)): up to MaxFiles paths, each once
Globs ==
    { files \in UNION { [1..n -> MatchedPaths] : n \in 0..MaxFiles } :
        \A i, j \in 1..Len(files) : files[i] = files[j] => i = j }

\* file_path.open("rb") returns a file; it raises IsADirectoryError otherwise
CanOpen(file_path) == file_path # "docs"

\* Faulty variant: every processed file counts as a success as well
Counted_Both(c, ok) == [c EXCEPT !.success = @ + 1, !.failed = @ + (IF ok THEN 0 ELSE 1)]

\* if response.ok: success += 1; else, and in the except clause: failed += 1
Counted(c, ok) ==
    IF ok THEN [c EXCEPT !.success = @ + 1] ELSE [c EXCEPT !.failed = @ + 1]

\* the end of one pass of the loop over files (progress.update), and after
\* the last one the summary
Advanced(c, outcome) ==
    LET d == [c EXCEPT !.pc = "loop", !.processed = @ + 1, !.log = Append(@, outcome)] IN
    IF d.processed < Len(d.files) THEN d
    ELSE Exits(d, "returned", <<"Summary: ", ToString(d.success), " successful, ",
                                ToString(d.failed), " failed">>)

\* bulk_upload up to the loop: _get_client, the glob, `if not files`
BulkUpload(files) ==
    /\ Starts
    /\ LET c == [Command("bulk-upload", <<>>) EXCEPT !.files = files] IN
       cmd' = IF site.kind # "record" THEN Exits(c, "ConfigError", <<>>)
              ELSE IF files = <<>>
              THEN Exits(c, "returned", <<"No files found matching pattern">>)
              ELSE [c EXCEPT !.pc = "loop", !.output = <<"Found ", ToString(Len(files))>>]
    /\ UNCHANGED client_vars

\* one pass of the loop up to client.session.post: the file is opened and
\* posted to f"{client.base_url}/api/method/upload_file"; if it cannot be
\* opened the except clause counts it and no request is made
UploadFile ==
    /\ cmd.name = "bulk-upload"
    /\ cmd.pc = "loop"
    /\ pc = "idle"
    /\ LET file_path == cmd.files[cmd.processed + 1] IN
       IF ~CanOpen(file_path)
       THEN /\ cmd' = Advanced([Counted(cmd, FALSE) EXCEPT
                                  !.output = @ \o <<"Error uploading ", file_path>>],
                              [opened |-> FALSE, raised |-> "IsADirectoryError",
                               status |-> 0])
            /\ UNCHANGED client_vars
       ELSE /\ cmd' = [cmd EXCEPT !.pc = "uploading", !.posts = @ + 1]
            /\ pc' = "sending"
            /\ method' = "POST"
            /\ request' = [ method |-> "POST",
                            url |-> session.base_url
                                        \o <<"/", "api", "/", "method", "/", "upload_file">>,
                            headers |-> session.headers,
                            body |-> file_path ]
            /\ wire' = NoRequest
            /\ retries' = RequestBudget(session, spent)
            /\ answers' = <<>>
            /\ error' = "none"
            /\ calls' = 0
            /\ response' = NoResponse
            /\ raised' = "none"
            /\ result' = NoResult
            /\ slept' = <<>>
            /\ UNCHANGED <<session, ops, config, env, site, built, spent>>

\* one pass of the loop from the return of client.session.post on: response.ok,
\* or the except clause for what session.post raised
UploadAnswered ==
    /\ cmd.name = "bulk-upload"
    /\ cmd.pc = "uploading"
    /\ VerbReturns
    /\ spent' = spent
    /\ LET ok == raised = "none" /\ Ok(response)
           c == [cmd EXCEPT !.answered = @ + 1,
                            !.output = @ \o (IF ok THEN <<>>
                                             ELSE IF raised = "none" THEN <<"Failed">>
                                             ELSE <<"Error uploading ", raised>>)] IN
       cmd' = Advanced(Counted(c, ok),
                       [opened |-> TRUE, raised |-> raised, status |-> response.status])

CommandInit ==
    /\ config \in {TestConfig, MissingFile}
    /\ env = <<>>
    /\ site = ConfigSite(LoadConfig(config), env, "")
    /\ session = IF site.kind = "record" THEN ClientOf(site.record) ELSE NoSession
    /\ built = NoBuilt
    /\ pc = "idle"
    /\ method = ""
    /\ retries = 0
    /\ answers = <<>>
    /\ error = "none"
    /\ calls = 0
    /\ response = NoResponse
    /\ raised = "none"
    /\ result = NoResult
    /\ ops = 0
    /\ request = NoRequest
    /\ wire = NoRequest
    /\ slept = <<>>
    /\ spent = 0
    /\ cmd = NoCommand

CommandNext ==
    \/ \E yes \in BOOLEAN, answer \in {"y", "n", "abort"} : DeleteDocument(yes, answer)
    \/ DeleteDocumentReturns
    \/ \E data \in DataStrings, dry_run \in BOOLEAN : CreateDocument(data, dry_run)
    \/ CreateDocumentReturns
    \/ \E data \in DataStrings, dry_run \in BOOLEAN : UpdateDocument(data, dry_run)
    \/ UpdateDocumentReturns
    \/ \E files \in Globs : BulkUpload(files)
    \/ UploadFile
    \/ UploadAnswered
    \/ \E err \in FewErrors : AttemptError(err)
    \/ \E r \in FewAnswers \cup {[status |-> 200, retry_after |-> FALSE, text |-> BodyNested]} :
          AttemptResponse(r)
    \/ \E r \in Heads, err \in BodyErrors : AttemptBodyError(r, err)

CommandSpec == CommandInit /\ [][CommandNext]_vars

(***************************************************************************)
(* Properties.                                                             *)
(***************************************************************************)
Front(seq) == SubSeq(seq, 1, Len(seq) - 1)
Last(seq) == seq[Len(seq)]
AllOf(seq, a) == \A i \in 1..Len(seq) : seq[i] = a
Contains(message, part) == \E i \in 1..Len(message) : message[i] = part
Finished == pc = "done"
\* session.request returned a response to _make_request
ResponseReturned == pc = "done" /\ raised = "none"

\* C1: while the first k <= 3 attempts of an operation are answered with a
\* forcelist status the operation goes on to a further attempt, and when the
\* next attempt is answered with a success status the operation has made
\* exactly k + 1 transport calls and returns the normalized payload of that
\* last response.
C1_RetryOnForcelist ==
    /\ (answers # <<>> /\ Len(answers) <= 3 /\ AllOf(answers, "forcelist"))
          => (pc = "sending" /\ calls = Len(answers))
    /\ (Finished /\ answers # <<>> /\ AllOf(Front(answers), "forcelist")
          /\ Last(answers) = "success")
          => /\ Len(answers) <= 4
             /\ calls = Len(answers)
             /\ raised = "none"
             /\ result = Payload(ParseResponse(response))

C1_Witness ==
    /\ Finished
    /\ answers = <<"forcelist", "forcelist", "forcelist", "success">>
    /\ response.status = 200
    /\ calls = 4
    /\ result.kind = "payload"

\* C2 (as claimed): an operation all of whose attempts were answered with a
\* forcelist status ends, once the retries are exhausted, in APIFailure with
\* the numeric status in its message, not in ConnectionFailure and with no
\* payload.
C2_ExhaustedIsAPIFailure ==
    (Finished /\ answers # <<>> /\ AllOf(answers, "forcelist"))
        => /\ result.kind = "APIFailure"
           /\ Contains(result.message, ToString(response.status))
           /\ result.payload = NoValue

C4_GetRetriedAfterConnectionError ==
    /\ (method = "GET" /\ answers = <<"NewConnectionError">>) => pc = "sending"
    /\ (Finished /\ method = "GET" /\ answers = <<"NewConnectionError", "success">>
          /\ response.status = 200)
          => /\ calls = 2
             /\ raised = "none"
             /\ result = Payload(ParseResponse(response))

C4_Witness ==
    /\ Finished
    /\ method = "GET"
    /\ answers = <<"NewConnectionError", "success">>
    /\ response.status = 200
    /\ response.text = BodyMessageData
    /\ calls = 2
    /\ result = Payload(JStr("M"))

C6_NeverConflated ==
    Finished
        => /\ result.kind \in {"payload", "ConnectionFailure", "APIFailure"}
           /\ result.kind = "APIFailure"
                => (error = "none" /\ 400 <= response.status /\ response.status < 600)
           /\ result.kind = "ConnectionFailure"
                => (\E i \in 1..Len(answers) : answers[i] \in TransportErrors \cup BodyErrors)

\* C7: for a body that is a JSON mapping the normalizer returns the value at
\* "message" if the mapping has that key (also when it has "data"), else the
\* value at "data" if it has that key, else the mapping itself.
C7_EnvelopePriority ==
    (ResponseReturned /\ result.kind = "payload" /\ IsDict(ResponseJson(response.text)))
        => LET body == ResponseJson(response.text) IN
           /\ "message" \in DOMAIN body.m => result.payload = body.m["message"]
           /\ ("message" \notin DOMAIN body.m /\ "data" \in DOMAIN body.m)
                => result.payload = body.m["data"]
           /\ ("message" \notin DOMAIN body.m /\ "data" \notin DOMAIN body.m)
                => result.payload = body
           /\ response.text = BodyMessageData => result.payload = JStr("M")
           /\ response.text = BodyData => result.payload = JStr("D")
           /\ response.text = BodyOther => result.payload = JMap([other |-> JNum("1")])

C7_Witness ==
    /\ ResponseReturned
    /\ response.status = 200
    /\ response.text = BodyMessageData
    /\ result = Payload(JStr("M"))

\* C8: a body that does not parse as JSON is returned as the raw response
\* text, and a parsed JSON list or scalar is returned as that parsed value.
C8_NonMappingPassThrough ==
    (ResponseReturned /\ result.kind = "payload" /\ ~IsDict(ResponseJson(response.text)))
        => /\ ResponseJson(response.text) = NoValue => result.payload = JStr(response.text)
           /\ ResponseJson(response.text) # NoValue
                => result.payload = ResponseJson(response.text)
           /\ response.text = BodyPlain => result.payload = JStr("plain text")
           /\ response.text = BodyList => result.payload = JList("[1, 2, 3]")
           /\ response.text = BodyNumber => result.payload = JNum("7")
           /\ response.text = BodyString => result.payload = JStr("ok")

C8_Witness ==
    /\ ResponseReturned
    /\ response.status = 200
    /\ response.text = BodyList
    /\ result = Payload(JList("[1, 2, 3]"))

\* C9: every failure response that reaches the error handler ends the
\* operation in APIFailure, never in another exception, with the message
\* "API request failed with status {status}: {detail}", detail being the value
\* at "message" when the body is a JSON mapping with that key and the raw body
\* text in every other case.
C9_APIFailureMessage ==
    (ResponseReturned /\ 400 <= response.status /\ response.status < 600)
        => LET body == ResponseJson(response.text)
               detail == IF IsDict(body) /\ "message" \in DOMAIN body.m
                         THEN PyStr(body.m["message"])
                         ELSE response.text
           IN /\ result.kind = "APIFailure"
              /\ result.message =
                    <<"API request failed with status ", ToString(response.status),
                      ": ", detail>>
              /\ (response.status = 403 /\ response.text = BodyMessage)
                    => result.message =
                          <<"API request failed with status ", "403", ": ",
                            "Not permitted">>
              /\ response.text = BodyList => result.message[4] = "[1, 2, 3]"
              /\ response.text = BodyData => result.message[4] = BodyData

C9_Witness ==
    /\ ResponseReturned
    /\ response.status = 403
    /\ response.text = BodyMessage
    /\ result.kind = "APIFailure"
    /\ result.message = <<"API request failed with status ", "403", ": ", "Not permitted">>

\* C10 (as claimed): a final response with a status in 200..399 is handed to
\* the normalizer and its result returned, and a final response with any
\* status outside 200..399 fails with APIFailure.
C10_SuccessIs200To399 ==
    ResponseReturned
        => /\ (200 <= response.status /\ response.status <= 399)
                => result = Payload(ParseResponse(response))
           /\ ~(200 <= response.status /\ response.status <= 399)
                => result.kind = "APIFailure"

\* C10 (amended): failure is the status range 400..599 alone: a response the
\* transport returns with a status outside 400..599 (also one below 200 or
\* above 599) is handed to the normalizer and its result returned, and one
\* with a status in 400..599 fails with APIFailure.
C10_FailureIs400To599 ==
    ResponseReturned
        => /\ (response.status < 400 \/ response.status > 599)
                => result = Payload(ParseResponse(response))
           /\ (400 <= response.status /\ response.status <= 599)
                => (result.kind = "APIFailure" /\ result.payload = NoValue)

C10_Witness ==
    /\ ResponseReturned
    /\ response.status = 600
    /\ result.kind = "payload"

\* the attempts that timed out before their response arrived
Timeouts == {"ConnectTimeoutError", "ReadTimeoutError"}

RaisedCause ==
    IF error = "none" THEN Cause("ResponseError", response.status)
    ELSE IF error \in BodyErrors THEN Cause(error, response.status)
    ELSE Cause(error, 0)

C14_SessionImmutable ==
    [][session' = session]_vars

C14_Witness ==
    /\ ops = 1
    /\ Finished
    /\ Len(answers) = 4
    /\ result.kind = "ConnectionFailure"
    /\ session = FrappeClient(SiteUrl, ApiKey, ApiSecret, DefaultTimeout)
    /\ session.max_retries.total = 3

\* C15: the base_url of the constructed session is the one a session
\* constructed with the same URL followed by one more "/" has, and it does not
\* end with "/".
C15_TrailingSlashStripped ==
    session # NoSession
        => LET u == Field(site.record, "url") IN
           /\ session.base_url = FrappeClient(u, "k", "s", DefaultTimeout).base_url
           /\ session.base_url
                = FrappeClient(u \o <<"/">>, "k", "s", DefaultTimeout).base_url
           /\ session.base_url # <<>>
           /\ Last(session.base_url) # "/"
           /\ u \in {SiteUrl, SiteUrl \o <<"/">>, SiteUrl \o <<"/", "/">>}
                => session.base_url = SiteUrl

C15_Witness ==
    /\ site.kind = "record"
    /\ Field(site.record, "url") = <<"https:", "/", "/", "test.example.com", "/", "/">>
    /\ session.base_url = <<"https:", "/", "/", "test.example.com">>

\* C16: the URL built for a path that does not start with "/" is the URL
\* built for "/" followed by that path, with the same params; a path that
\* starts with "/" is joined to the base URL as it is.
C16_LeadingSlash ==
    built # NoBuilt
        => /\ ~StartsWith(built.path, <<"/">>)
                => built.url = BuildUrl(session, <<"/">> \o built.path, built.params)
           /\ StartsWith(built.path, <<"/">>)
                => built.url = WithQuery(UrlJoin(session.base_url, built.path),
                                         built.params)
           /\ (session.base_url = SiteUrl /\ built.path \in Paths /\ built.params = JNull)
                => built.url = <<"https:", "/", "/", "test.example.com", "/", "api", "/",
                                 "resource", "/", "User">>

C16_Witness ==
    /\ built.path = <<"api", "/", "resource", "/", "User">>
    /\ built.params = PyDict(<< <<"limit_page_length", JNum("20")>> >>)
    /\ session.base_url = SiteUrl
    /\ built.url = <<"https:", "/", "/", "test.example.com", "/", "api", "/", "resource",
                     "/", "User", "?", "limit_page_length", "=", "20">>

\* C17 (as claimed): the URL built for a path has the scheme and the authority
\* of the session's base URL, and the normalized path as its path component.
C17_AuthorityKept ==
    built # NoBuilt
        => /\ UrlParse(built.url).scheme = UrlParse(session.base_url).scheme
           /\ UrlParse(built.url).netloc = UrlParse(session.base_url).netloc
           /\ UrlParse(built.url).path = NormalizePath(built.path)

\* the <<key, "=", value>> tokens of the i-th pair of a query string
QueryPair(query, i) == SubSeq(query, 4 * i - 3, 4 * i - 1)

\* C18: for non-empty params the query string holds one key=value pair per
\* entry of params, in the order of params; the value of a dict or list is the
\* URL-encoded JSON text of it, which parses back to the value; any other value
\* is the URL-encoding of its str(), a string never being JSON-encoded; for
\* empty or absent params the URL has no "?".
C18_QueryEncoding ==
    built # NoBuilt
        => LET query == AfterQuery(built.url)
               items == built.params.m
           IN /\ ~IsTruthy(built.params)
                   => /\ built.url = UrlJoin(session.base_url, NormalizePath(built.path))
                      /\ \A i \in 1..Len(built.url) : built.url[i] # "?"
              /\ IsTruthy(built.params)
                   => /\ Len(query) = 4 * Len(items) - 1
                      /\ built.url[Len(built.url) - Len(query)] = "?"
                      /\ \A i \in 1..(Len(items) - 1) : query[4 * i] = "&"
                      /\ \A i \in 1..Len(items) :
                            /\ QueryPair(query, i)[1] = items[i][1]
                            /\ QueryPair(query, i)[2] = "="
                            /\ items[i][2].t \in {"map", "list"}
                                  => /\ QueryPair(query, i)[3]
                                          = QuotePlus(JsonDumps(items[i][2]))
                                     /\ JsonLoads(JsonDumps(items[i][2])) = items[i][2]
                            /\ items[i][2].t \notin {"map", "list"}
                                  => QueryPair(query, i)[3] = QuotePlus(PyStr(items[i][2]))
                            /\ items[i][2] = JStr("creation desc")
                                  => QueryPair(query, i)[3] = "creation+desc"
                            /\ items[i][2] = JStr("[\"name\", \"module\"]")
                                  => QueryPair(query, i)[3]
                                        = "%5B%22name%22%2C+%22module%22%5D"
                            /\ items[i][2] = Filters
                                  => QueryPair(query, i)[3]
                                        = "%5B%5B%22status%22%2C+%22%3D%22%2C+%22Open%22%5D%5D"

C18_Witness ==
    /\ session.base_url = SiteUrl
    /\ built.path = <<"/", "api", "/", "resource", "/", "User">>
    /\ Len(built.params.m) = 3
    /\ built.url =
          <<"https:", "/", "/", "test.example.com", "/", "api", "/", "resource", "/", "User",
            "?", "fields", "=", "%5B%22name%22%2C+%22module%22%5D",
            "&", "filters", "=", "%7B%22module%22%3A+%22Core%22%7D",
            "&", "order_by", "=", "creation+desc">>

\* C19: every verb sends its own fixed method and runs the same pipeline: an
\* attempt answered with a forcelist status is retried whatever the method, a
\* returned response gives the outcome that depends on the response alone
\* (payload of the normalizer, or APIFailure), an exception of the transport
\* gives ConnectionFailure; get sends no body, post and put no query
\* parameters, delete neither; a delete answered 202 with body {"message": v}
\* returns v.
C19_SamePipeline ==
    /\ pc # "idle" => (method \in {"GET", "POST", "PUT", "DELETE"} /\ request.method = method)
    /\ (answers # <<>> /\ Len(answers) <= 3 /\ Last(answers) = "forcelist")
          => pc = "sending"
    /\ ResponseReturned => result = Returned(response)
    /\ (Finished /\ raised # "none") => result.kind = "ConnectionFailure"
    /\ method = "GET" => request.body = ""
    /\ method \in {"POST", "PUT", "DELETE"}
          => /\ AfterQuery(request.url) = <<>>
             /\ \A i \in 1..Len(request.url) : request.url[i] # "?"
    /\ method = "DELETE" => request.body = ""
    /\ (ResponseReturned /\ method = "DELETE" /\ response.status = 202
          /\ IsDict(ResponseJson(response.text))
          /\ HasKey(ResponseJson(response.text), "message"))
          => result = Payload(ResponseJson(response.text).m["message"])
    /\ (ResponseReturned /\ method = "DELETE" /\ response.status = 202
          /\ response.text = BodyMessage)
          => result = Payload(JStr("Not permitted"))

C19_Witness ==
    /\ ResponseReturned
    /\ method = "DELETE"
    /\ request.method = "DELETE"
    /\ request.body = ""
    /\ response.status = 202
    /\ response.text = BodyMessage
    /\ result = Payload(JStr("Not permitted"))

\* the mapping the configuration file holds (<<>> if it holds none)
FileData == IF LoadConfig(config).kind = "Config" THEN config.doc.m ELSE <<>>

\* the name of the site the lookup was made for
LookedUpName ==
    IF site.name # "" THEN site.name
    ELSE IF "default_site" \in DOMAIN FileData THEN FileData.default_site
    ELSE ""

\* the site configuration, as the file has it, that the lookup was made for
\* (<<>> when the file has none for it)
LookedUp ==
    IF "sites" \in DOMAIN FileData /\ LookedUpName \in DOMAIN FileData.sites
    THEN FileData.sites[LookedUpName]
    ELSE <<>>

\* a value of the file that names an environment variable
HasPlaceholder(value) == \E j \in 1..Len(value) : IsPlaceholder(value[j])

\* C20: a record the site lookup returns has url, api_key and api_secret, and
\* its url has a scheme and an authority; a lookup of a site configuration
\* that lacks one of the three fields, or whose url (written out in the file)
\* lacks a scheme or an authority, raises ConfigError and returns no record;
\* and a client exists only if the lookup returned a record.
C20_RecordsAreValid ==
    /\ site.kind = "record"
          => /\ HasField(site.record, "url")
             /\ HasField(site.record, "api_key")
             /\ HasField(site.record, "api_secret")
             /\ UrlParse(Field(site.record, "url")).scheme \in SchemeTokens
             /\ UrlParse(Field(site.record, "url")).netloc # ""
             /\ Field(site.record, "url")[1] \in {"https:", "http:"}
             /\ SubSeq(Field(site.record, "url"), 2, 3) = <<"/", "/">>
             /\ Field(site.record, "url")[4] \notin {"/", "?"}
    /\ (site # NoSite
          /\ \/ ~HasField(LookedUp, "url")
             \/ ~HasField(LookedUp, "api_key")
             \/ ~HasField(LookedUp, "api_secret")
             \/ /\ ~HasPlaceholder(Field(LookedUp, "url"))
                /\ \/ UrlParse(Field(LookedUp, "url")).scheme = ""
                   \/ UrlParse(Field(LookedUp, "url")).netloc = "")
          => (site.kind = "ConfigError" /\ site.record = <<>> /\ session = NoSession)
    /\ (site # NoSite
          /\ site.name \in {"nourl", "nokey", "nosecret", "noscheme", "nonetloc",
                             "oneslash", "empty"})
          => site.kind = "ConfigError"
    /\ session # NoSession => site.kind = "record"

C20_Witness ==
    /\ site.name = "nonetloc"
    /\ site.kind = "ConfigError"
    /\ site.message = <<"Invalid URL format: ", "https://">>
    /\ session = NoSession

\* a site configuration of the file names a variable the environment lacks
ReferencesUnset(items) ==
    \E i \in 1..Len(items) : \E j \in 1..Len(items[i][2]) :
        /\ IsPlaceholder(items[i][2][j])
        /\ \A var \in DOMAIN env : items[i][2][j] # Placeholder(var)

\* C21: a record the site lookup returns has the fields of the file's site
\* configuration, in which no placeholder is left: a value without a
\* placeholder is the file's, a placeholder is replaced by the value of its
\* environment variable; validation judges the substituted values (a url
\* given by ${FRAPPE_URL} is accepted or rejected by the value of FRAPPE_URL);
\* and a lookup of a site configuration that names a variable that is not set
\* raises ConfigError naming the variable, returns no record and leaves no
\* client.
C21_EnvSubstituted ==
    /\ site.kind = "record"
          => /\ Len(site.record) = Len(LookedUp)
             /\ \A i \in 1..Len(site.record) :
                  /\ site.record[i][1] = LookedUp[i][1]
                  /\ ~HasPlaceholder(site.record[i][2])
                  /\ ~HasPlaceholder(LookedUp[i][2]) => site.record[i] = LookedUp[i]
    /\ (site.kind = "record" /\ LookedUp = Sites["envkey"])
          => /\ Field(site.record, "api_key") = env["FRAPPE_API_KEY"]
             /\ session.headers.Authorization = "token env_key:test_secret"
    /\ (site.kind = "record" /\ LookedUp = Sites["envurl"])
          => /\ Field(site.record, "url") = env["FRAPPE_URL"]
             /\ Field(site.record, "api_key") = <<"key-">> \o env["FRAPPE_API_KEY"]
             /\ session.base_url = env["FRAPPE_URL"]
    /\ (site # NoSite /\ LookedUp = Sites["envurl"] /\ DOMAIN env = EnvVars)
          => IF env["FRAPPE_URL"] = <<"not-a-valid-url">>
             THEN /\ site.kind = "ConfigError"
                  /\ site.message = <<"Invalid URL format: ", "not-a-valid-url">>
             ELSE site.kind = "record"
    /\ (site # NoSite /\ LookedUp = Sites["envnourl"] /\ "FRAPPE_API_KEY" \in DOMAIN env)
          => site.message = <<"Missing required field: ", "url">>
    /\ (site # NoSite /\ ReferencesUnset(LookedUp))
          => /\ site.kind = "ConfigError"
             /\ site.record = <<>>
             /\ site.message[1] = "Environment variable '"
             /\ site.message[2] \in EnvVars \ DOMAIN env
             /\ session = NoSession

C21_Witness ==
    /\ site.name = "envurl"
    /\ site.kind = "record"
    /\ Field(LookedUp, "url") = <<Placeholder("FRAPPE_URL")>>
    /\ Field(site.record, "url") = <<"http:", "/", "/", "erp.example.com">>
    /\ Field(site.record, "api_key") = <<"key-", "env_key">>
    /\ session.headers.Authorization = "token key-env_key:test_secret"

BackoffSeconds == <<0, 2, 4>>

C28_NoPayloadFromFailure ==
    /\ result.kind = "payload"
          => /\ raised = "none"
             /\ response # NoResponse
             /\ ~(400 <= response.status /\ response.status < 600)
    /\ (ResponseReturned /\ 400 <= response.status /\ response.status < 600)
          => (result.kind = "APIFailure" /\ result.payload = NoValue)
    /\ (Finished /\ response.status = 403 /\ response.text = BodyMessage)
          => result # Payload(JStr("Not permitted"))

C28_Witness ==
    /\ ResponseReturned
    /\ response.status = 403
    /\ response.text = BodyMessage
    /\ result.kind = "APIFailure"
    /\ result.payload = NoValue

\* C30: the normalizer takes the value at "message" whenever the key is
\* there, whatever the value, and does not look into it: {"message":
\* {"data": X}} gives {"data": X}, not X, and {"message": null, "data": D}
\* gives null, not D.
C30_OneLevelByKey ==
    (ResponseReturned /\ result.kind = "payload")
        => /\ response.text = BodyNested
                => (result.payload = JMap([data |-> JStr("X")]) /\ result.payload # JStr("X"))
           /\ response.text = BodyNullMessage
                => (result.payload = JNull /\ result.payload # JStr("D"))
           /\ (IsDict(ResponseJson(response.text))
                 /\ HasKey(ResponseJson(response.text), "message")
                 /\ ResponseJson(response.text).m["message"].t \in {"map", "null"})
                => result.payload = ResponseJson(response.text).m["message"]

C30_Witness ==
    /\ ResponseReturned
    /\ response.status = 200
    /\ response.text = BodyNullMessage
    /\ result = Payload(JNull)

\* C23 (as claimed): an operation makes at most 4 transport attempts.
C23_AtMostFourAttempts == calls <= RetryTotal + 1

\* the attempts the operation made since the last redirect it followed
RECURSIVE SinceRedirect(_)
SinceRedirect(log) ==
    IF log = <<>> \/ Last(log) = "redirect" THEN 0 ELSE SinceRedirect(Front(log)) + 1

\* C23: every operation in progress ends, and makes at most 4 transport
\* attempts (1 and up to 3 retries) for each request it sends: at most 4 in
\* all when no attempt is answered with a redirect, and at most 4 more for
\* the request that follows each redirect.
C23_TerminatesWithinBudget ==
    /\ [](/\ calls <= (RetryTotal + 1) * (Hops + 1)
          /\ SinceRedirect(answers) <= RetryTotal + 1
          /\ Hops = 0 => calls <= RetryTotal + 1
          /\ pc = "sending" => SinceRedirect(answers) <= RetryTotal)
    /\ (pc = "sending") ~> (pc = "done")

C23_Witness ==
    /\ pc = "done"
    /\ Hops = 1
    /\ calls = 2 * (RetryTotal + 1)
    /\ SinceRedirect(answers) = RetryTotal + 1

\* C29: every operation starts with the full budget of 3 retries, whatever
\* the operations before it on the session used: the budget left to an
\* operation in progress is 3 less the attempts it has made itself, the
\* policy on the session stays at 3, an operation all of whose attempts are
\* answered with a forcelist status makes 4 transport calls, and what a
\* finished operation returns is given by the response it received.
C29_BudgetPerOperation ==
    /\ session.max_retries.total = RetryTotal
    /\ (pc = "sending" /\ answers = <<>>) => retries = RetryTotal
    /\ pc = "sending" => (retries = RetryTotal - Len(answers) /\ calls = Len(answers))
    /\ Finished => (calls = Len(answers) /\ calls <= RetryTotal + 1)
    /\ (Finished /\ AllOf(answers, "forcelist")) => calls = RetryTotal + 1
    /\ (Finished /\ calls < RetryTotal + 1)
          => Last(answers) \in {"success", "failure"} \cup BodyErrors
    /\ ResponseReturned => result = Returned(response)

C29_Witness ==
    /\ ops = 1
    /\ spent = RetryTotal
    /\ pc = "done"
    /\ calls = RetryTotal + 1
    /\ AllOf(answers, "forcelist")

\* a command of this name has run to its end
Ended(name) == cmd.name = name /\ cmd.pc = "exit"

\* no request has left the process
NothingSent == cmd.verbs = <<>> /\ pc = "idle" /\ ops = 0 /\ calls = 0 /\ wire = NoRequest

\* C25: doc delete calls client.delete, for /api/resource/{doctype}/{name},
\* only if --yes was given or the prompt was answered yes; when the prompt is
\* declined no request leaves the process; and "Deleted" is printed only
\* after client.delete has returned without raising, its one call made
C25_DeleteOnlyConfirmed ==
    cmd.name = "delete" =>
        /\ cmd.verbs # <<>> =>
              /\ cmd.options.yes \/ cmd.options.answer = "y"
              /\ cmd.verbs = <<"DELETE">>
        /\ (pc # "idle" \/ calls # 0 \/ wire # NoRequest \/ ops # 0) => cmd.verbs # <<>>
        /\ pc \in {"sending", "done"} =>
              /\ request.method = "DELETE"
              /\ request.url = SiteUrl \o DocumentPath
              /\ cmd.pc = "calling"
        /\ (~cmd.options.yes /\ cmd.options.answer = "n") =>
              /\ NothingSent
              /\ site.kind = "record" =>
                    cmd.exit = "returned" /\ cmd.output = <<"Cancelled">>
        /\ cmd.output = <<"Deleted User: jane@example.com">> =>
              /\ cmd.exit = "returned"
              /\ cmd.verbs = <<"DELETE">>
              /\ ops = 1
        /\ (cmd.pc = "exit" /\ cmd.exit # "returned") => cmd.output = <<>>

\* the prompt was answered yes, the document deleted and the message printed
C25_Witness ==
    /\ Ended("delete")
    /\ ~cmd.options.yes
    /\ cmd.options.answer = "y"
    /\ cmd.output = <<"Deleted User: jane@example.com">>
    /\ ops = 1

\* the verb doc create and doc update call on the client
WriteVerb == IF cmd.name = "create" THEN "POST" ELSE "PUT"

\* what --dry-run prints: the parsed data
DryRunOutput == <<"DRY RUN - Would ", cmd.name, JsonDumpsIndent(JsonLoads(cmd.options.data))>>

\* _get_client returned a client and _load_data the parsed data
Prepared == site.kind = "record" /\ JsonLoads(cmd.options.data) # NoValue

\* C27, as stated: doc create and doc update with --dry-run send nothing,
\* print the parsed data and return; without --dry-run they call client.post
\* or client.put exactly once
C27_DryRunOrOneCall ==
    (Ended("create") \/ Ended("update")) =>
        IF cmd.options.dry_run
        THEN NothingSent /\ cmd.exit = "returned" /\ cmd.output = DryRunOutput
        ELSE cmd.verbs = <<WriteVerb>>

\* C27, amended: with --dry-run nothing is ever sent; once the client is
\* constructed and the data parsed, a dry run prints the parsed data and
\* returns, and a run without --dry-run calls client.post or client.put
\* exactly once; a command that fails before that calls nothing and prints
\* nothing
C27_DryRunShortOfCall ==
    cmd.name \in {"create", "update"} =>
        /\ cmd.options.dry_run => NothingSent
        /\ Len(cmd.verbs) <= 1
        /\ cmd.verbs # <<>> => cmd.verbs = <<WriteVerb>> /\ Prepared
        /\ pc \in {"sending", "done"} => request.method = WriteVerb /\ cmd.pc = "calling"
        /\ (cmd.pc = "exit" /\ Prepared) =>
              IF cmd.options.dry_run
              THEN cmd.exit = "returned" /\ cmd.output = DryRunOutput
              ELSE cmd.verbs = <<WriteVerb>> /\ ops = 1
        /\ (cmd.pc = "exit" /\ ~Prepared) =>
              /\ NothingSent
              /\ cmd.output = <<>>
              /\ cmd.exit = IF site.kind # "record" THEN "ConfigError" ELSE "JSONDecodeError"

\* doc create without --dry-run has posted the document once and returned
C27_Witness ==
    /\ Ended("create")
    /\ ~cmd.options.dry_run
    /\ cmd.verbs = <<"POST">>
    /\ cmd.exit = "returned"
    /\ ops = 1

\* the processed files that were uploaded, and those whose response was ok
Uploaded == { i \in 1..Len(cmd.log) : cmd.log[i].opened }
UploadedOk == { i \in Uploaded : cmd.log[i].raised = "none" /\ Ok(cmd.log[i]) }

\* uploads posted and not yet answered
InFlight == cmd.posts - cmd.answered

\* what C26 says of the counters: at every point success + failed is the
\* number of files processed, success the number of ok responses, at most one
\* upload is in flight, and the loop ends only after the last matched file
CountersAgree ==
    /\ InFlight \in {0, 1}
    /\ pc \in {"sending", "done"} <=> InFlight = 1
    /\ cmd.processed = Len(cmd.log)
    /\ cmd.processed <= Len(cmd.files)
    /\ cmd.success + cmd.failed = cmd.processed
    /\ cmd.success = Cardinality(UploadedOk)
    /\ (cmd.pc = "exit" /\ site.kind = "record") =>
          /\ cmd.exit = "returned"
          /\ cmd.processed = Len(cmd.files)
          /\ cmd.success + cmd.failed = Len(cmd.files)

\* C26, as stated: bulk-upload issues one upload per matched file, one after
\* the other, and its counters agree with what the uploads met
C26_OneUploadPerFile ==
    cmd.name = "bulk-upload" =>
        /\ CountersAgree
        /\ cmd.answered = cmd.processed
        /\ (cmd.pc = "exit" /\ site.kind = "record") => cmd.posts = Len(cmd.files)

\* C26, amended: bulk-upload issues one upload per matched file it can open,
\* one after the other; a matched path it cannot open gets no upload and
\* counts as failed; the counters agree with what the files met
C26_OneUploadPerOpenedFile ==
    cmd.name = "bulk-upload" =>
        /\ CountersAgree
        /\ cmd.answered = Cardinality(Uploaded)
        /\ \A i \in 1..Len(cmd.log) : cmd.log[i].opened <=> CanOpen(cmd.files[i])
        /\ (cmd.pc = "exit" /\ site.kind = "record") =>
              cmd.posts = Cardinality({ i \in 1..Len(cmd.files) : CanOpen(cmd.files[i]) })

\* a directory was matched first and counted as failed, the file after it
\* uploaded
C26_Witness ==
    /\ Ended("bulk-upload")
    /\ cmd.files = <<"docs", "a.pdf">>
    /\ cmd.posts = 1
    /\ cmd.success = 1
    /\ cmd.failed = 1

=============================================================================
